---- MODULE Spec2Model ----
(***************************************************************************)
(* KAST plugin execution core: PluginBase.run / _format_results            *)
(* (core/plugin_base.py) and ScanOrchestrator.run_scans / _execute_plugin  *)
(* / _resolve_dependencies (core/scanner.py), with the wafw00f adapter     *)
(* (plugins/wafw00f/plugin.py) as one of the discovered plugin classes.    *)
(***************************************************************************)
EXTENDS Integers, Sequences, FiniteSets, TLC

\* ---------------------------------------------------------------- bounds
\* number of plugin classes held in ScanOrchestrator.plugins
NumUnits == 2
\* largest max_concurrent passed to run_scans
MaxConcurrent == 2
\* number of run() calls a caller makes on the instances of one unit
MaxRuns == 2
\* number of adapter directories under the plugins directory
MaxAdapters == 2
\* number of arguments of a built command
MaxArgs == 3

\* ------------------------------------------------------- Python values
\* Optional values: None and a present value
None == <<>>
Some(x) == <<x>>

\* the empty findings mapping {} ; a mapping is a set of <<key, value>> pairs
EmptyFindings == {}

\* ScanType, OutputMethod and PluginStatus enum members (by their .value)
ScanType == {"passive", "active"}
OutputMethod == {"stdout", "file"}
PluginStatus == {"not_started", "running", "completed", "failed", "timeout"}

\* the target every instance is bound to
Target == "example.com"

\* ------------------------------------------------------ plugin classes
\* the adapter shipped with the repository: PASSIVE, FILE, no run_if
WafW00fPlugin ==
    [name |-> "wafw00f",
     description |-> "Web Application Firewall Detection Tool",
     scan_type |-> "passive", output_method |-> "file", has_run_if |-> FALSE]

\* adapters written against the PluginBase contract that also supply the
\* run_if() readiness predicate the orchestrator calls
StdoutAdapter ==
    [name |-> "portscan", description |-> "stdout adapter",
     scan_type |-> "active", output_method |-> "stdout", has_run_if |-> TRUE]

FileAdapter ==
    [name |-> "dnsinfo", description |-> "file adapter",
     scan_type |-> "passive", output_method |-> "file", has_run_if |-> TRUE]

PluginClasses == {WafW00fPlugin, StdoutAdapter, FileAdapter}

PluginNames == {c.name : c \in PluginClasses}

\* what the external tool can put on stdout / into its output file
StdoutText == "stdout-text"
FileText == "file-text"

\* what an adapter's parse_output returns when it does not raise
ParsedFindings == {<<"finding", "value">>}

\* what the wafw00f tool can leave in its output file: nothing, text that
\* is no JSON, a JSON array, a JSON object with and without "firewall"
WafTexts ==
    {"", "not json", "[]", "{\"firewall\": \"CloudFront\"}", "{}"}

\* the text the external tool of a FILE unit can write
OutputTexts(cls) == IF cls.name = "wafw00f" THEN WafTexts ELSE {FileText}

VARIABLES
    plugins,        \* ScanOrchestrator.plugins: sequence of plugin classes
    phase,          \* position of run_scans: "idle", "scanning", "returned"
    max_workers,    \* ThreadPoolExecutor max_workers of the current call
    ordered,        \* ordered_plugins: sequence of indices into plugins
    queue,          \* executor work queue: submitted, not yet taken
    pc,             \* per unit: position of its worker task
    inst,           \* per unit: the PluginBase instance fields
    proc,           \* per unit: state of its external process
    future,         \* per unit: result of its Future, None until done
    scan_results,   \* the list run_scans builds and returns
    raw_files,      \* <output_dir>/<name>_raw_output.json, by name
    results_files,  \* <output_dir>/<name>_results.json, by name
    clock,          \* the reading datetime.utcnow() returns
    dir_writable,   \* whether files can be written in output_dir
    env,            \* per unit: outcomes observed in this call (history)
    origin,         \* per entry of scan_results: the unit it came from (history)
    plugins_dir,    \* the adapter directories a discovery pass lists
    discovery,      \* the discovery pass: who runs it, its position, its result
    cmd,            \* the argument list build_command() returned
    launched_cmd    \* the argument list handed to subprocess.run, None before

vars == <<plugins, phase, max_workers, ordered, queue, pc, inst, proc, future,
          scan_results, raw_files, results_files, clock, dir_writable, env,
          origin, plugins_dir, discovery, cmd, launched_cmd>>

Units == 1..Len(plugins)

\* PluginBase.__init__
NewInstance ==
    [status |-> "not_started", start_time |-> None, end_time |-> None,
     raw_output |-> None, results |-> None]

NoOutcome == "-"

NewEnv ==
    [run_if |-> NoOutcome, deps |-> NoOutcome, build |-> NoOutcome,
     proc |-> NoOutcome, wrote |-> FALSE, parse |-> NoOutcome,
     persist |-> NoOutcome, formatted |-> 0, reruns |-> 0]

\* no discovery pass is under way
NoDiscovery ==
    [by |-> "none", trailing_sep |-> FALSE, state |-> "idle", cursor |-> 0,
     found |-> <<>>, registry |-> {}, fault |-> None]

\* ------------------------------------------------- _resolve_dependencies
\* plugin_class.scan_type read on the CLASS: scan_type is declared with
\* @property, so the class attribute is the property object itself and
\* never a ScanType member
ClassScanType(cls) == "property-object"

\* key=lambda p: 0 if p.scan_type == ScanType.PASSIVE else 1
SortKey(cls) == IF ClassScanType(cls) = "passive" THEN 0 ELSE 1

\* sorted(): stable insertion of x after every element with key <= key(x)
RECURSIVE InsertByKey(_, _, _)
InsertByKey(s, x, key) ==
    IF s = <<>> THEN <<x>>
    ELSE IF key[Head(s)] <= key[x]
         THEN <<Head(s)>> \o InsertByKey(Tail(s), x, key)
         ELSE <<x>> \o s

RECURSIVE Sorted(_, _)
Sorted(s, key) ==
    IF s = <<>> THEN <<>>
    ELSE InsertByKey(Sorted(SubSeq(s, 1, Len(s) - 1), key), s[Len(s)], key)

\* returns the order as indices into the given list of classes
ResolveDependencies(ps) ==
    Sorted([i \in 1..Len(ps) |-> i], [i \in 1..Len(ps) |-> SortKey(ps[i])])

\* ------------------------------------------------------ _format_results
Isoformat(t) == [iso |-> t]

\* bug: every record of a unit that did not complete gets an error field
FormatResultsErrorOnFailure(cls, i, parsed_results, error) ==
    LET base ==
          [tool_name |-> cls.name,
           tool_description |-> cls.description,
           tool_version |-> "unknown",
           scan_type |-> cls.scan_type,
           target |-> Target,
           timestamp_start |->
               IF i.start_time # None THEN Some(Isoformat(i.start_time[1]))
               ELSE None,
           timestamp_end |->
               IF i.end_time # None THEN Some(Isoformat(i.end_time[1]))
               ELSE None,
           duration_seconds |->
               IF i.start_time # None /\ i.end_time # None
               THEN Some(i.end_time[1] - i.start_time[1]) ELSE None,
           status |-> i.status,
           raw_output |-> i.raw_output,
           findings |->
               IF parsed_results = None THEN EmptyFindings
               ELSE parsed_results[1]]
    IN  IF error # None THEN base @@ ("error" :> error[1])
        ELSE IF i.status \in {"failed", "timeout"}
             THEN base @@ ("error" :> i.status)
        ELSE base

FormatResults(cls, i, parsed_results, error) ==
    LET base ==
          [tool_name |-> cls.name,
           tool_description |-> cls.description,
           tool_version |-> "unknown",
           scan_type |-> cls.scan_type,
           target |-> Target,
           timestamp_start |->
               IF i.start_time # None THEN Some(Isoformat(i.start_time[1]))
               ELSE None,
           timestamp_end |->
               IF i.end_time # None THEN Some(Isoformat(i.end_time[1]))
               ELSE None,
           duration_seconds |->
               IF i.start_time # None /\ i.end_time # None
               THEN Some(i.end_time[1] - i.start_time[1]) ELSE None,
           status |-> i.status,
           raw_output |-> i.raw_output,
           findings |->
               IF parsed_results = None THEN EmptyFindings
               ELSE parsed_results[1]]
    IN  IF error # None THEN base @@ ("error" :> error[1]) ELSE base

\* the record _execute_plugin builds in its except branch
FailedRecord(cls, e) == [plugin |-> cls.name, status |-> "Failed", error |-> e]

\* bug: a unit that is not ready is reported as an error
NotRunRecordAsFailure(cls) ==
    [plugin |-> cls.name, status |-> "Failed",
     error |-> "Run conditions not met"]

\* the record _execute_plugin builds when run_if() is false
NotRunRecord(cls) ==
    [plugin |-> cls.name, status |-> "Not Run",
     reason |-> "Run conditions not met"]

\* a Future's outcome: a returned value or a raised exception
Returned(v) == [ok |-> TRUE, value |-> v]
Raised(e) == [ok |-> FALSE, value |-> e]

\* bug: no except branch, the fault leaves _execute_plugin
ContainNothing(cls, outcome) == outcome

\* _execute_plugin's try/except around run_if() and run()
Contain(cls, outcome) ==
    IF outcome.ok THEN outcome ELSE Returned(FailedRecord(cls, outcome.value))

\* ---------------------------------------------------------------- Init
\* the orchestrator is constructed (plugins discovered), the output
\* directory is fresh and run_scans has not been called
Init ==
    /\ \E n \in 0..NumUnits : plugins \in [1..n -> PluginClasses]
    /\ phase = "idle"
    /\ max_workers = 0
    /\ ordered = <<>>
    /\ queue = <<>>
    /\ pc = [u \in Units |-> "unsubmitted"]
    /\ inst = [u \in Units |-> NewInstance]
    /\ proc = [u \in Units |-> "none"]
    /\ future = [u \in Units |-> None]
    /\ scan_results = <<>>
    /\ raw_files = [n \in PluginNames |-> None]
    /\ results_files = [n \in PluginNames |-> None]
    /\ clock = 0
    /\ dir_writable \in BOOLEAN
    /\ env = [u \in Units |-> NewEnv]
    /\ origin = <<>>
    /\ plugins_dir = <<>>
    /\ discovery = NoDiscovery
    /\ cmd = <<>>
    /\ launched_cmd = None

\* bug: a pool thread is never handed back after its task
ActiveNeverReleased == {u \in Units : pc[u] \notin {"unsubmitted", "queued"}}

\* units whose task a worker thread is executing
Active == {u \in Units : pc[u] \in {"execute", "run", "build", "wait"}}

\* bug: one thread more than max_workers
WorkerAvailableOffByOne == Cardinality(Active) <= max_workers

\* a pool thread is free to take the next work item
WorkerAvailable == Cardinality(Active) < max_workers

\* -------------------------------------------------------------- run_scans
\* run_scans(max_concurrent = n): resolve the order, instantiate one unit
\* per class and submit every task to the pool
RunScans(n) ==
    /\ phase = "idle"
    /\ phase' = "scanning"
    /\ max_workers' = n
    /\ ordered' = ResolveDependencies(plugins)
    /\ queue' = ordered'
    /\ pc' = [u \in Units |-> "queued"]
    /\ inst' = [u \in Units |-> NewInstance]
    /\ clock' = clock + 1
    /\ UNCHANGED <<plugins, proc, future, scan_results, raw_files,
                   results_files, dir_writable, env, origin,
                   plugins_dir, discovery, cmd,
                   launched_cmd>>

\* a free pool thread takes the oldest queued task
WorkerTake(u) ==
    /\ phase = "scanning"
    /\ queue # <<>>
    /\ u = Head(queue)
    /\ WorkerAvailable
    /\ queue' = Tail(queue)
    /\ pc' = [pc EXCEPT ![u] = "execute"]
    /\ UNCHANGED <<plugins, phase, max_workers, ordered, inst, proc, future,
                   scan_results, raw_files, results_files, clock,
                   dir_writable, env, origin,
                   plugins_dir, discovery, cmd,
                   launched_cmd>>

\* plugin_instance.run_if(): PluginBase defines no run_if, so a class that
\* supplies none raises AttributeError
RunIfOutcomes(cls) ==
    IF cls.has_run_if THEN {"true", "false", "raise"} ELSE {"missing"}

RunIfFault(r) == IF r = "missing" THEN "AttributeError: run_if" ELSE "run_if fault"

\* _execute_plugin up to the call of run()
ExecutePlugin(u) ==
    /\ pc[u] = "execute"
    /\ \E r \in RunIfOutcomes(plugins[u]) :
         /\ env' = [env EXCEPT ![u].run_if = r]
         /\ IF r = "true"
            THEN /\ pc' = [pc EXCEPT ![u] = "run"]
                 /\ UNCHANGED future
            ELSE /\ pc' = [pc EXCEPT ![u] = "done"]
                 /\ future' = [future EXCEPT ![u] = Some(
                        IF r = "false"
                        THEN Returned(NotRunRecord(plugins[u]))
                        ELSE Contain(plugins[u], Raised(RunIfFault(r))))]
    /\ UNCHANGED <<plugins, phase, max_workers, ordered, queue, inst, proc,
                   scan_results, raw_files, results_files, clock,
                   dir_writable, origin,
                   plugins_dir, discovery, cmd,
                   launched_cmd>>

\* ------------------------------------------------------------------- run
\* the end of run(): _format_results on instance state i, the write of
\* <name>_results.json, and the return through _execute_plugin
EndRun(u, i, parsed_results, error, e) ==
      LET cls == plugins[u]
          ps == IF dir_writable THEN "ok" ELSE "raise"
          rec == FormatResults(cls, i, parsed_results, error)
          out == IF ps = "ok" THEN Returned(rec) ELSE Raised("OSError")
      IN  /\ inst' = [inst EXCEPT ![u] = [i EXCEPT !.results = Some(rec)]]
          /\ results_files' =
                IF ps = "ok"
                THEN [results_files EXCEPT ![cls.name] = Some(rec)]
                ELSE results_files
          /\ future' = [future EXCEPT ![u] = Some(Contain(cls, out))]
          /\ env' = [env EXCEPT ![u] = [e EXCEPT !.persist = ps,
                                               !.formatted = @ + 1]]
          /\ pc' = [pc EXCEPT ![u] = "done"]

\* bug: the record of a failed dependency check carries no error
DependenciesNotMetNoError(u, e) ==
    EndRun(u, [inst[u] EXCEPT !.status = "failed"], None, None, e)

\* the branch of run() taken when check_dependencies() is false
DependenciesNotMet(u, e) ==
    EndRun(u, [inst[u] EXCEPT !.status = "failed"], None,
           Some("Dependencies not met"), e)

\* run() from its first line to the entry into RUNNING
RunStart(u) ==
    /\ pc[u] = "run"
    /\ \E d \in {"true", "false", "raise"} :
         LET e == [env[u] EXCEPT !.deps = d]
         IN  CASE d = "false" ->
                  DependenciesNotMet(u, e)
               [] d = "raise" ->
                  /\ future' = [future EXCEPT ![u] = Some(
                         Contain(plugins[u], Raised("check_dependencies fault")))]
                  /\ env' = [env EXCEPT ![u] = e]
                  /\ pc' = [pc EXCEPT ![u] = "done"]
                  /\ UNCHANGED <<inst, results_files>>
               [] d = "true" ->
                  /\ inst' = [inst EXCEPT ![u] =
                         [@ EXCEPT !.status = "running",
                                   !.start_time = Some(clock)]]
                  /\ env' = [env EXCEPT ![u] = e]
                  /\ pc' = [pc EXCEPT ![u] = "build"]
                  /\ UNCHANGED <<future, results_files, clock>>
    /\ UNCHANGED <<plugins, phase, max_workers, ordered, queue, proc,
                   scan_results, raw_files, clock, dir_writable, origin,
                   plugins_dir, discovery, cmd,
                   launched_cmd>>

\* bug: the except branches store a string that is no PluginStatus value
RunExceptBadStatus(u, st, e) ==
    EndRun(u, [inst[u] EXCEPT !.status = "error", !.end_time = Some(clock)],
           Some(EmptyFindings), None, e)

\* the except branches of run(): status, empty findings, end_time, format
RunExcept(u, st, e) ==
    /\ EndRun(u, [inst[u] EXCEPT !.status = st, !.end_time = Some(clock)],
              Some(EmptyFindings), None, e)

\* build_command() and the launch of the process by subprocess.run
BuildAndLaunch(u) ==
    /\ pc[u] = "build"
    /\ \E b \in {"ok", "raise"}, l \in {"ok", "launch_failure"} :
         LET e == [env[u] EXCEPT !.build = b,
                                 !.proc = IF b = "ok" /\ l # "ok" THEN l ELSE @]
         IN  IF b = "ok" /\ l = "ok"
             THEN /\ proc' = [proc EXCEPT ![u] = "running"]
                  /\ pc' = [pc EXCEPT ![u] = "wait"]
                  /\ env' = [env EXCEPT ![u] = e]
                  /\ UNCHANGED <<inst, future, results_files>>
             ELSE /\ (b = "raise" => l = "ok")
                  /\ RunExcept(u, "failed", e)
                  /\ UNCHANGED proc
    /\ UNCHANGED <<plugins, phase, max_workers, ordered, queue,
                   scan_results, raw_files, clock, dir_writable, origin,
                   plugins_dir, discovery, cmd,
                   launched_cmd>>

\* json.load on the text of a file: the decoded value or JSONDecodeError
JsonLoad(text) ==
    CASE text = "{\"firewall\": \"CloudFront\"}" ->
           Returned([type |-> "object",
                     members |-> {<<"firewall", "CloudFront">>}])
      [] text = "{}" -> Returned([type |-> "object", members |-> {}])
      [] text = "[]" -> Returned([type |-> "array", members |-> {}])
      [] OTHER -> Raised("JSONDecodeError")

\* bug: the key is never found
DictGetDefault(members, key, default) == default

\* dict.get(key, default)
DictGet(members, key, default) ==
    IF \E m \in members : m[1] = key
    THEN (CHOOSE m \in members : m[1] = key)[2]
    ELSE default

\* WafW00fPlugin.parse_output on the output file (None when it is absent):
\* only JSONDecodeError and FileNotFoundError are caught, and .get is
\* called on whatever json.load decoded
WafParseOutput(file) ==
    IF file = None THEN Returned(EmptyFindings)
    ELSE LET data == JsonLoad(file[1])
         IN  IF ~ data.ok THEN Returned(EmptyFindings)
             ELSE IF data.value.type # "object" THEN Raised("AttributeError")
             ELSE Returned({<<"detected_waf",
                              DictGet(data.value.members, "firewall",
                                      "No WAF detected")>>})

\* what parse_output can do: wafw00f's is the code above, another
\* adapter's returns findings or raises
ParseOutcomes(cls, file) ==
    IF cls.name = "wafw00f" THEN {WafParseOutput(file)}
    ELSE {Returned(ParsedFindings), Raised("parse fault")}

\* bug: a non-zero exit code is treated as a failure of the unit
StatusAfterParseExitCode(code, parsed) ==
    IF parsed.ok /\ code = "exit0" THEN "completed" ELSE "failed"

\* the status run() leaves after parse_output: the exit code is only
\* logged, COMPLETED unless parse_output raised
StatusAfterParse(code, parsed) ==
    IF parsed.ok THEN "completed" ELSE "failed"

\* the process exits before the timeout: output retrieval, parse_output,
\* COMPLETED or the except branch, then the end of run()
ProcessExit(u) ==
    /\ pc[u] = "wait"
    /\ proc[u] = "running"
    /\ \E code \in {"exit0", "exit_nonzero"}, wrote \in BOOLEAN,
          text \in OutputTexts(plugins[u]) :
         LET cls == plugins[u]
             files == IF wrote /\ cls.output_method = "file"
                      THEN [raw_files EXCEPT ![cls.name] = Some(text)]
                      ELSE raw_files
             raw == IF cls.output_method = "stdout" THEN StdoutText
                    ELSE IF files[cls.name] # None THEN files[cls.name][1]
                    ELSE ""
             i == [inst[u] EXCEPT !.raw_output = Some(raw),
                                  !.end_time = Some(clock)]
         IN  /\ (cls.output_method = "stdout" => ~wrote)
             /\ raw_files' = files
             /\ proc' = [proc EXCEPT ![u] = "exited"]
             /\ \E parsed \in ParseOutcomes(cls, files[cls.name]) :
                  EndRun(u,
                         [i EXCEPT !.status = StatusAfterParse(code, parsed)],
                         Some(IF parsed.ok THEN parsed.value
                              ELSE EmptyFindings),
                         None,
                         [env[u] EXCEPT
                             !.proc = code, !.wrote = wrote,
                             !.parse = IF parsed.ok THEN "ok" ELSE "raise"])
    /\ UNCHANGED <<plugins, phase, max_workers, ordered, queue,
                   scan_results, clock, dir_writable, origin,
                   plugins_dir, discovery, cmd,
                   launched_cmd>>

\* bug: the generic except branch catches the expiry, the unit ends FAILED
TimeoutExpiredAsFailure(u) ==
    /\ pc[u] = "wait"
    /\ proc[u] = "running"
    /\ proc' = [proc EXCEPT ![u] = "killed"]
    /\ RunExcept(u, "failed", [env[u] EXCEPT !.proc = "timeout"])
    /\ UNCHANGED <<plugins, phase, max_workers, ordered, queue,
                   scan_results, raw_files, clock, dir_writable, origin,
                   plugins_dir, discovery, cmd,
                   launched_cmd>>

\* the timeout expires first: subprocess.run kills the child and raises
\* TimeoutExpired, run() takes the TIMEOUT branch
TimeoutExpired(u) ==
    /\ pc[u] = "wait"
    /\ proc[u] = "running"
    /\ proc' = [proc EXCEPT ![u] = "killed"]
    /\ RunExcept(u, "timeout", [env[u] EXCEPT !.proc = "timeout"])
    /\ UNCHANGED <<plugins, phase, max_workers, ordered, queue,
                   scan_results, raw_files, clock, dir_writable, origin,
                   plugins_dir, discovery, cmd,
                   launched_cmd>>

\* bug: the collecting loop keeps only the records of units that ran
CollectSkipFailed(u) ==
    /\ phase = "scanning"
    /\ pc[u] = "done"
    /\ pc' = [pc EXCEPT ![u] = "collected"]
    /\ IF future[u][1].ok /\ inst[u].status # "failed"
       THEN /\ scan_results' = Append(scan_results, future[u][1].value)
            /\ origin' = Append(origin, u)
       ELSE UNCHANGED <<scan_results, origin>>
    /\ UNCHANGED <<plugins, phase, max_workers, ordered, queue, inst, proc,
                   future, raw_files, results_files, clock, dir_writable,
                   env, plugins_dir, discovery, cmd,
                   launched_cmd>>

\* ------------------------------------------------- as_completed / return
\* one iteration of the as_completed loop
Collect(u) ==
    /\ phase = "scanning"
    /\ pc[u] = "done"
    /\ pc' = [pc EXCEPT ![u] = "collected"]
    /\ IF future[u][1].ok
       THEN /\ scan_results' = Append(scan_results, future[u][1].value)
            /\ origin' = Append(origin, u)
       ELSE UNCHANGED <<scan_results, origin>>
    /\ UNCHANGED <<plugins, phase, max_workers, ordered, queue, inst, proc,
                   future, raw_files, results_files, clock, dir_writable,
                   env,
                   plugins_dir, discovery, cmd,
                   launched_cmd>>

\* bug: the loop stops at the first collected future
FirstCollected == \E u \in Units : pc[u] = "collected"

\* as_completed has yielded every submitted future
AllCollected == \A u \in Units : pc[u] = "collected"

\* as_completed is exhausted, the executor is shut down, run_scans returns
Return ==
    /\ phase = "scanning"
    /\ AllCollected
    /\ phase' = "returned"
    /\ UNCHANGED <<plugins, max_workers, ordered, queue, pc, inst, proc,
                   future, scan_results, raw_files, results_files, clock,
                   dir_writable, env, origin,
                   plugins_dir, discovery, cmd,
                   launched_cmd>>

Next ==
    \/ \E n \in 1..MaxConcurrent : RunScans(n)
    \/ \E u \in Units : WorkerTake(u)
    \/ \E u \in Units : ExecutePlugin(u)
    \/ \E u \in Units : RunStart(u)
    \/ \E u \in Units : BuildAndLaunch(u)
    \/ \E u \in Units : ProcessExit(u)
    \/ \E u \in Units : TimeoutExpired(u)
    \/ \E u \in Units : Collect(u)
    \/ Return

Spec == Init /\ [][Next]_vars

\* ------------------------------------------------- run() called directly
\* a caller constructs an instance of the unit and calls run() on it, with
\* the try/except of _execute_plugin around the call
NewInstanceRun(u) ==
    /\ phase = "idle"
    /\ pc[u] \in {"unsubmitted", "done", "resumed"}
    /\ clock < MaxRuns
    /\ clock' = clock + 1
    /\ inst' = [inst EXCEPT ![u] = NewInstance]
    /\ env' = [env EXCEPT ![u] = NewEnv]
    /\ proc' = [proc EXCEPT ![u] = "none"]
    /\ future' = [future EXCEPT ![u] = None]
    /\ pc' = [pc EXCEPT ![u] = "run"]
    /\ UNCHANGED <<plugins, phase, max_workers, ordered, queue, scan_results,
                   raw_files, results_files, dir_writable, origin,
                   plugins_dir, discovery, cmd,
                   launched_cmd>>

\* the caller calls run() again on the instance whose run() has returned:
\* run() has no guard on self.status and __init__ is not executed again
RunAgain(u) ==
    /\ phase = "idle"
    /\ pc[u] \in {"done", "resumed"}
    /\ clock < MaxRuns
    /\ clock' = clock + 1
    /\ env' = [env EXCEPT ![u] = [NewEnv EXCEPT !.reruns = env[u].reruns + 1]]
    /\ proc' = [proc EXCEPT ![u] = "none"]
    /\ future' = [future EXCEPT ![u] = None]
    /\ pc' = [pc EXCEPT ![u] = "run"]
    /\ UNCHANGED <<plugins, phase, max_workers, ordered, queue, inst,
                   scan_results, raw_files, results_files, dir_writable,
                   origin, plugins_dir, discovery, cmd,
                   launched_cmd>>

\* PluginBase.can_resume
CanResume(cls) == FALSE

\* bug: the default resume() raises instead of returning a record
ResumeNotImplemented(u) ==
    /\ phase = "idle"
    /\ pc[u] \in {"unsubmitted", "done"}
    /\ future' = [future EXCEPT ![u] = Some(Raised("NotImplementedError"))]
    /\ pc' = [pc EXCEPT ![u] = "resumed"]
    /\ UNCHANGED <<plugins, phase, max_workers, ordered, queue, inst, proc,
                   scan_results, raw_files, results_files, clock,
                   dir_writable, env, origin, plugins_dir, discovery, cmd,
                   launched_cmd>>

\* PluginBase.resume called on an instance on which no run() is under way:
\* _format_results(error="Resume not supported") on the instance as it is,
\* the write of <name>_results.json, and the return to the caller
Resume(u) ==
    /\ phase = "idle"
    /\ pc[u] \in {"unsubmitted", "done"}
    /\ LET cls == plugins[u]
           rec == FormatResults(cls, inst[u], None,
                                Some("Resume not supported"))
       IN  /\ inst' = [inst EXCEPT ![u].results = Some(rec)]
           /\ results_files' =
                 IF dir_writable
                 THEN [results_files EXCEPT ![cls.name] = Some(rec)]
                 ELSE results_files
           /\ future' = [future EXCEPT ![u] = Some(
                  IF dir_writable THEN Returned(rec) ELSE Raised("OSError"))]
    /\ pc' = [pc EXCEPT ![u] = "resumed"]
    /\ UNCHANGED <<plugins, phase, max_workers, ordered, queue, proc,
                   scan_results, raw_files, clock, dir_writable, env, origin,
                   plugins_dir, discovery, cmd,
                   launched_cmd>>

DirectNext ==
    \/ \E u \in Units : NewInstanceRun(u)
    \/ \E u \in Units : RunAgain(u)
    \/ \E u \in Units : Resume(u)
    \/ \E u \in Units : RunStart(u)
    \/ \E u \in Units : BuildAndLaunch(u)
    \/ \E u \in Units : ProcessExit(u)
    \/ \E u \in Units : TimeoutExpired(u)

\* one unit, run_scans not called
DirectInit ==
    /\ Init
    /\ Len(plugins) = 1

DirectSpec == DirectInit /\ [][DirectNext]_vars

\* ------------------------------------------- output file placeholder
\* the placeholder token of a FILE unit's command
Placeholder == "{output_file}"

\* an argument is a string, held as the sequence of its pieces so that an
\* occurrence of the placeholder inside it is a piece of its own: the tool
\* name, the placeholder alone, and the placeholder embedded after and
\* before other text
Arguments ==
    {<<"tool">>, <<Placeholder>>, <<"--out=", Placeholder>>,
     <<Placeholder, ".log">>}

\* the argument lists build_command() can return
Commands == UNION {[1..n -> Arguments] : n \in 0..MaxArgs}

\* os.path.join(self.output_dir, f"{self.name}_raw_output.json")
OutputFilePath(cls) == "output_dir/" \o cls.name \o "_raw_output.json"

\* arg.replace("{output_file}", output_file)
Replace(arg, output_file) ==
    [j \in 1..Len(arg) |->
        IF arg[j] = Placeholder THEN output_file ELSE arg[j]]

\* if "{output_file}" in cmd: cmd = [arg.replace(...) for arg in cmd]
\* ("in" on a list: some argument IS the placeholder)
Substitute(command, output_file) ==
    IF \E k \in 1..Len(command) : command[k] = <<Placeholder>>
    THEN [k \in 1..Len(command) |-> Replace(command[k], output_file)]
    ELSE command

\* run() from build_command() to subprocess.run, for the command built
LaunchCommand ==
    /\ launched_cmd = None
    /\ launched_cmd' = Some(
           IF plugins[1].output_method = "file"
           THEN Substitute(cmd, OutputFilePath(plugins[1]))
           ELSE cmd)
    /\ UNCHANGED <<plugins, phase, max_workers, ordered, queue, pc, inst,
                   proc, future, scan_results, raw_files, results_files,
                   clock, dir_writable, env, origin, plugins_dir, discovery,
                   cmd>>

CommandNext == LaunchCommand

\* one unit whose build_command() returns any of the commands
CommandInit ==
    /\ plugins \in [1..1 -> PluginClasses]
    /\ phase = "idle"
    /\ max_workers = 0
    /\ ordered = <<>>
    /\ queue = <<>>
    /\ pc = [u \in Units |-> "build"]
    /\ inst = [u \in Units |-> [NewInstance EXCEPT !.status = "running"]]
    /\ proc = [u \in Units |-> "none"]
    /\ future = [u \in Units |-> None]
    /\ scan_results = <<>>
    /\ raw_files = [n \in PluginNames |-> None]
    /\ results_files = [n \in PluginNames |-> None]
    /\ clock = 0
    /\ dir_writable = TRUE
    /\ env = [u \in Units |-> NewEnv]
    /\ origin = <<>>
    /\ plugins_dir = <<>>
    /\ discovery = NoDiscovery
    /\ cmd \in Commands
    /\ launched_cmd = None

CommandSpec == CommandInit /\ [][CommandNext]_vars

\* ----------------------------------------------------------- discovery
\* adapter directories that can sit under the plugins directory: two that
\* load, one that loads and whose module imports the class of another
\* adapter (the class is then in its module's __dict__ as well), one whose
\* plugin module raises ImportError, one with a syntax error, one whose
\* module raises another fault when executed, and the interpreter's cache
\* directory
AdapterDirs ==
    {[name |-> "wafw00f", load |-> "ok", classes |-> <<WafW00fPlugin>>],
     [name |-> "portscan", load |-> "ok", classes |-> <<StdoutAdapter>>],
     [name |-> "rescan", load |-> "ok", classes |-> <<WafW00fPlugin>>],
     [name |-> "bad_import", load |-> "ImportError", classes |-> <<>>],
     [name |-> "bad_syntax", load |-> "SyntaxError", classes |-> <<>>],
     [name |-> "bad_fault", load |-> "RuntimeError", classes |-> <<>>],
     [name |-> "__pycache__", load |-> "no plugin.py", classes |-> <<>>]}

\* os.listdir / os.walk: directory names are distinct, in any order
Listings ==
    UNION {{l \in [1..n -> AdapterDirs] :
              \A j, k \in 1..n : l[j].name = l[k].name => j = k}
           : n \in 0..MaxAdapters}

\* importlib.import_module on a dotted name (a sequence of components):
\* the classes of the module, or the fault its loading raises; a name that
\* is no module under the plugins package raises ImportError
ImportModule(listing, module) ==
    IF \E k \in 1..Len(listing) :
          /\ module = <<"plugins", listing[k].name, "plugin">>
          /\ listing[k].load # "no plugin.py"
    THEN LET d == listing[CHOOSE k \in 1..Len(listing) :
                             module = <<"plugins", listing[k].name, "plugin">>]
         IN  IF d.load = "ok" THEN Returned(d.classes) ELSE Raised(d.load)
    ELSE Raised("ImportError")

\* f'plugins.{plugin_name}.plugin'
OrchestratorModule(name) == <<"plugins", name, "plugin">>

\* os.path.relpath(full_path, os.path.dirname(self.plugins_dir)): dirname of
\* a path spelled with a trailing separator is the directory itself,
\* otherwise its parent
RelativePath(trailing_sep, name) ==
    IF trailing_sep THEN <<name, "plugin.py">>
    ELSE <<"plugins", name, "plugin.py">>

\* relative_path.replace(os.path.sep, '.').replace('.py', '')
ModulePath(relative_path) ==
    [k \in 1..Len(relative_path) |->
        IF relative_path[k] = "plugin.py" THEN "plugin" ELSE relative_path[k]]

\* f'plugins.{module_path}'
DiscovererModule(trailing_sep, name) ==
    <<"plugins">> \o ModulePath(RelativePath(trailing_sep, name))

\* self.discovered_plugins[name] = obj for each class of a loaded module
\* (the key is the class's __name__); the mapping is a set of pairs
RECURSIVE Register(_, _)
Register(registry, classes) ==
    IF classes = <<>> THEN registry
    ELSE Register({r \in registry : r[1] # Head(classes).name}
                      \cup {<<Head(classes).name, Head(classes)>>},
                  Tail(classes))

\* a discovery pass starts: ScanOrchestrator._discover_plugins, or
\* PluginDiscoverer.discover_plugins on a path spelled with or without a
\* trailing separator
DiscoverStart(by, trailing_sep) ==
    /\ discovery.state = "idle"
    /\ (by = "orchestrator" => ~ trailing_sep)
    /\ discovery' = [by |-> by, trailing_sep |-> trailing_sep,
                     state |-> "running", cursor |-> 1, found |-> <<>>,
                     registry |-> {}, fault |-> None]
    /\ UNCHANGED <<plugins, phase, max_workers, ordered, queue, pc, inst,
                   proc, future, scan_results, raw_files, results_files,
                   clock, dir_writable, env, origin, plugins_dir, cmd,
                   launched_cmd>>

\* one iteration of ScanOrchestrator._discover_plugins' loop
OrchestratorStep(d) ==
    IF d.name = "__pycache__"
    THEN discovery' = [discovery EXCEPT !.cursor = @ + 1]
    ELSE LET out == ImportModule(plugins_dir, OrchestratorModule(d.name))
         IN  IF out.ok
             THEN discovery' = [discovery EXCEPT !.cursor = @ + 1,
                                                 !.found = @ \o out.value]
             ELSE IF out.value = "ImportError"
             THEN discovery' = [discovery EXCEPT !.cursor = @ + 1]
             ELSE discovery' = [discovery EXCEPT !.state = "raised",
                                                 !.fault = Some(out.value)]

\* one plugin.py file met by PluginDiscoverer.discover_plugins' walk
DiscovererStep(d) ==
    IF d.load = "no plugin.py"
    THEN discovery' = [discovery EXCEPT !.cursor = @ + 1]
    ELSE LET out == ImportModule(plugins_dir,
                        DiscovererModule(discovery.trailing_sep, d.name))
         IN  IF out.ok
             THEN discovery' = [discovery EXCEPT
                                   !.cursor = @ + 1,
                                   !.registry = Register(@, out.value)]
             ELSE discovery' = [discovery EXCEPT !.cursor = @ + 1]

DiscoverStep ==
    /\ discovery.state = "running"
    /\ discovery.cursor <= Len(plugins_dir)
    /\ IF discovery.by = "orchestrator"
       THEN OrchestratorStep(plugins_dir[discovery.cursor])
       ELSE DiscovererStep(plugins_dir[discovery.cursor])
    /\ UNCHANGED <<plugins, phase, max_workers, ordered, queue, pc, inst,
                   proc, future, scan_results, raw_files, results_files,
                   clock, dir_writable, env, origin, plugins_dir, cmd,
                   launched_cmd>>

\* the loop is over: return plugins / list(discovered_plugins.values())
DiscoverReturn ==
    /\ discovery.state = "running"
    /\ discovery.cursor > Len(plugins_dir)
    /\ discovery' = [discovery EXCEPT !.state = "returned"]
    /\ UNCHANGED <<plugins, phase, max_workers, ordered, queue, pc, inst,
                   proc, future, scan_results, raw_files, results_files,
                   clock, dir_writable, env, origin, plugins_dir, cmd,
                   launched_cmd>>

\* the classes a returned pass hands to its caller
Discovered ==
    IF discovery.by = "orchestrator"
    THEN {discovery.found[k] : k \in 1..Len(discovery.found)}
    ELSE {r[2] : r \in discovery.registry}

DiscoveryNext ==
    \/ \E by \in {"orchestrator", "PluginDiscoverer"}, t \in BOOLEAN :
         DiscoverStart(by, t)
    \/ DiscoverStep
    \/ DiscoverReturn

\* before construction: nothing discovered, any listing of the directory
DiscoveryInit ==
    /\ plugins = <<>>
    /\ phase = "idle"
    /\ max_workers = 0
    /\ ordered = <<>>
    /\ queue = <<>>
    /\ pc = <<>>
    /\ inst = <<>>
    /\ proc = <<>>
    /\ future = <<>>
    /\ scan_results = <<>>
    /\ raw_files = [n \in PluginNames |-> None]
    /\ results_files = [n \in PluginNames |-> None]
    /\ clock = 0
    /\ dir_writable = TRUE
    /\ env = <<>>
    /\ origin = <<>>
    /\ plugins_dir \in Listings
    /\ discovery = NoDiscovery
    /\ cmd = <<>>
    /\ launched_cmd = None

DiscoverySpec == DiscoveryInit /\ [][DiscoveryNext]_vars

\* the scheduler runs every pool thread and the collecting thread, and every
\* launched process exits or outlives its timeout
Fairness ==
    /\ WF_vars(\E u \in Units : WorkerTake(u))
    /\ WF_vars(\E u \in Units : ExecutePlugin(u))
    /\ WF_vars(\E u \in Units : RunStart(u))
    /\ WF_vars(\E u \in Units : BuildAndLaunch(u))
    /\ WF_vars(\E u \in Units : ProcessExit(u) \/ TimeoutExpired(u))
    /\ WF_vars(\E u \in Units : Collect(u))
    /\ WF_vars(Return)

\* initial states for the termination property: a writable output
\* directory, and classes without an output file of their own
FairInit ==
    /\ Init
    /\ dir_writable
    /\ \A u \in Units : plugins[u] \in {WafW00fPlugin, StdoutAdapter}

FairSpec == FairInit /\ [][Next]_vars /\ Fairness

\* ------------------------------------------------------------ observations
\* os.path.join(self.output_dir, f"{self.name}_results.json")
ResultsFile(u) == <<"output_dir", plugins[u].name, "_results.json">>

\* os.path.join(self.output_dir, f"{self.name}_raw_output.json")
RawOutputFile(u) == OutputFilePath(plugins[u])

\* u is inside run()
InRun(u) == pc[u] \in {"run", "build", "wait"}

\* the worker task of u has ended
TaskEnded(u) == pc[u] \in {"done", "collected"}

\* run() was called on u
RunCalled(u) == env[u].deps # NoOutcome

\* positions of u's record in the returned list
Positions(u) == {k \in 1..Len(origin) : origin[k] = u}

Running == {u \in Units : inst[u].status = "running"}

C2_State ==
    \A u \in Units :
        env[u].deps = "false"
        => /\ env[u].build = NoOutcome
           /\ env[u].parse = NoOutcome
           /\ env[u].proc = NoOutcome
           /\ proc[u] = "none"
           /\ inst[u].status = "failed"
           /\ inst[u].results # None
           /\ "error" \in DOMAIN inst[u].results[1]
           /\ inst[u].results[1].error = "Dependencies not met"
           /\ (dir_writable => future[u] = Some(Returned(inst[u].results[1])))

C2_Step ==
    \A u \in Units :
        (env'[u].deps = "false" /\ inst'[u].status # inst[u].status)
        => (inst[u].status = "not_started" /\ inst'[u].status = "failed")

C2_DependenciesNotMet == [](C2_State) /\ [][C2_Step]_vars

\* a unit whose dependency check failed and whose record was returned
C2_Witness ==
    \E u \in Units :
        /\ env[u].deps = "false" /\ pc[u] = "collected" /\ dir_writable
        /\ \E k \in Positions(u) : scan_results[k].status = "failed"

\* ---------------------------------------------------------------------- C3
\* C3: during run_scans(max_concurrent = N) at most N unit instances have
\* status RUNNING at the same time, however many units were submitted;
\* the units inside their worker task number at most N as well, and the
\* others are still queued or have ended.
C3_ConcurrencyBound ==
    phase # "idle"
    => /\ Cardinality(Running) <= max_workers
       /\ Cardinality(Active) <= max_workers
       /\ \A u \in Units \ Active :
            \/ TaskEnded(u)
            \/ \E k \in 1..Len(queue) : queue[k] = u

\* N units are RUNNING while a further unit waits in the queue
C3_Witness ==
    /\ phase = "scanning"
    /\ Cardinality(Running) = max_workers
    /\ queue # <<>>

\* ---------------------------------------------------------------------- C4
\* C4: when run_scans returns, every submitted unit has finished its worker
\* task and the returned list holds exactly one record for each submitted
\* unit, the one its task produced: none missing, none duplicated.
C4_JoinAll ==
    phase = "returned"
    => /\ \A u \in Units : TaskEnded(u) /\ future[u] # None
       /\ Len(scan_results) = Len(plugins)
       /\ \A u \in Units :
            /\ Cardinality(Positions(u)) = 1
            /\ \A k \in Positions(u) : scan_results[k] = future[u][1].value

\* run_scans returned a list mixing a completed, and a not-completed, unit
C4_Witness ==
    /\ phase = "returned"
    /\ \E u, v \in Units :
         /\ inst[u].status = "completed"
         /\ inst[v].status # "completed"

\* ---------------------------------------------------------------------- C5
\* C5: under fair scheduling, once run_scans has been called it eventually
\* returns, for every plugin list and every max_concurrent >= 1, also when
\* units outnumber the pool threads and when every unit fails or times out.
C5_EventuallyReturns == (phase = "scanning") ~> (phase = "returned")

\* run_scans returned although no unit completed and one waited in the queue
C5_Witness ==
    /\ phase = "returned"
    /\ max_workers < Len(plugins)
    /\ \A u \in Units : inst[u].status # "completed"
    /\ \E u \in Units : inst[u].status = "timeout"

\* ---------------------------------------------------------------------- C6
\* the description of the fault that left u's run_if(), run() or
\* _format_results, None when none did
EscapedFault(u) ==
    IF env[u].run_if = "missing" THEN Some("AttributeError: run_if")
    ELSE IF env[u].run_if = "raise" THEN Some("run_if fault")
    ELSE IF env[u].deps = "raise" THEN Some("check_dependencies fault")
    ELSE IF env[u].persist = "raise" THEN Some("OSError")
    ELSE None

\* C6: a fault raised by the readiness predicate, by run() or by the write
\* of the results file never leaves the worker task as an exception, and
\* when run_scans returns the list holds for that unit a record with status
\* "Failed", the unit's name and the fault description; every sibling task
\* has ended and is in the list as well.
C6_FaultBecomesFailedRecord ==
    /\ \A u \in Units : future[u] # None => future[u][1].ok
    /\ phase = "returned"
       => \A u \in Units :
            /\ Positions(u) # {}
            /\ EscapedFault(u) # None
               => \A k \in Positions(u) :
                    scan_results[k] =
                        [plugin |-> plugins[u].name, status |-> "Failed",
                         error |-> EscapedFault(u)[1]]

\* a fault raised by the write of the results file, returned as "Failed"
\* next to a sibling that was not run
C6_Witness ==
    /\ phase = "returned"
    /\ \E u, v \in Units :
         /\ env[u].persist = "raise"
         /\ env[v].run_if = "false"
         /\ \E k \in Positions(u) : scan_results[k].status = "Failed"

\* ---------------------------------------------------------------------- C7
\* the record v's task yields when v runs against outcomes of its own only:
\* its run_if, dependency check, command build, process (exit, output file
\* written or not), parse and the write of its results file
OwnRecord(v) ==
    LET cls == plugins[v]
        e == env[v]
        fresh == NewInstance
        entered == [fresh EXCEPT !.start_time = Some(clock),
                                 !.end_time = Some(clock)]
        raw == IF cls.output_method = "stdout" THEN StdoutText
               ELSE IF e.wrote THEN FileText ELSE ""
    IN  IF EscapedFault(v) # None THEN FailedRecord(cls, EscapedFault(v)[1])
        ELSE IF e.run_if = "false" THEN NotRunRecord(cls)
        ELSE IF e.deps = "false"
             THEN FormatResults(cls, [fresh EXCEPT !.status = "failed"], None,
                                Some("Dependencies not met"))
        ELSE IF e.build = "raise" \/ e.proc = "launch_failure"
             THEN FormatResults(cls, [entered EXCEPT !.status = "failed"],
                                Some(EmptyFindings), None)
        ELSE IF e.proc = "timeout"
             THEN FormatResults(cls, [entered EXCEPT !.status = "timeout"],
                                Some(EmptyFindings), None)
        ELSE IF e.parse = "raise"
             THEN FormatResults(cls, [entered EXCEPT !.status = "failed",
                                                    !.raw_output = Some(raw)],
                                Some(EmptyFindings), None)
        ELSE FormatResults(cls, [entered EXCEPT !.status = "completed",
                                               !.raw_output = Some(raw)],
                           Some(ParsedFindings), None)

\* C7: when run_scans returns and the parse_output of a unit u raised, u is
\* FAILED with empty findings, and every other unit has left RUNNING and is
\* in the returned list with the record it produces on its own, that is the
\* record fixed by its own outcomes, with u absent.
C7_ParseFaultContained ==
    phase = "returned"
    => \A u \in Units :
         env[u].parse = "raise"
         => /\ inst[u].status = "failed"
            /\ inst[u].results[1].findings = EmptyFindings
            /\ \A v \in Units \ {u} :
                 /\ inst[v].status # "running"
                 /\ Positions(v) # {}
                 /\ \A k \in Positions(v) : scan_results[k] = OwnRecord(v)

\* ---------------------------------------------------------------------- C8
\* the unit's process was still running when its timeout expired
TimedOut(u) == env[u].proc = "timeout"

C8_State ==
    \A u \in Units :
        TimedOut(u)
        => /\ proc[u] = "killed"
           /\ inst[u].status = "timeout"
           /\ inst[u].results # None
           /\ inst[u].results[1].status = "timeout"
           /\ inst[u].results[1].findings = EmptyFindings
           /\ (phase = "returned"
               => \A v \in Units \ {u} :
                    /\ TaskEnded(v)
                    /\ inst[v].status # "running"
                    /\ (TimedOut(v) \/ proc[v] # "killed"))

C8_Step ==
    \A u \in Units :
        (proc[u] = "running" /\ proc'[u] = "killed")
        => \A v \in Units \ {u} :
             /\ pc'[v] = pc[v]
             /\ inst'[v] = inst[v]
             /\ proc'[v] = proc[v]
             /\ future'[v] = future[v]

\* C8: a unit whose process is still running when its timeout expires has
\* that process terminated by its worker and ends in TIMEOUT with empty
\* findings; the expiry changes nothing of any sibling (task position,
\* instance, process, future), and at the return of run_scans every sibling
\* has ended its own lifecycle, none of them killed without a timeout of
\* its own.
C8_TimeoutIsLocal == [](C8_State) /\ [][C8_Step]_vars

\* a unit timed out while a sibling, launched before the expiry, completed
C8_Witness ==
    /\ phase = "returned"
    /\ max_workers > 1
    /\ \E u, v \in Units :
         /\ TimedOut(u) /\ inst[u].status = "timeout"
         /\ proc[v] = "exited" /\ inst[v].status = "completed"

\* ---------------------------------------------------------------------- C9
\* C9: the order run_scans submits in places every unit whose scan_type is
\* PASSIVE before every unit whose scan_type is ACTIVE, keeps the listed
\* order among units of the same scan_type, and holds every listed unit
\* exactly once.
C9_PassiveBeforeActive ==
    phase # "idle"
    => /\ Len(ordered) = Len(plugins)
       /\ \A u \in Units : \E k \in 1..Len(ordered) : ordered[k] = u
       /\ \A j, k \in 1..Len(ordered) :
            j < k
            => /\ ~ (/\ plugins[ordered[j]].scan_type = "active"
                     /\ plugins[ordered[k]].scan_type = "passive")
               /\ (plugins[ordered[j]].scan_type = plugins[ordered[k]].scan_type
                   => ordered[j] < ordered[k])

\* --------------------------------------------------------------------- C10
\* C10: for a unit whose class supplies no run_if, the worker invokes the
\* unit's run(), and the record the task yields is the one run() produced.
C10_DefaultAlwaysRun ==
    \A u \in Units :
        (~ plugins[u].has_run_if /\ TaskEnded(u))
        => /\ RunCalled(u)
           /\ inst[u].results # None
           /\ future[u] = Some(Returned(inst[u].results[1]))

\* --------------------------------------------------------------------- C11
\* C11: for a unit whose run_if() returned false, the worker task yields a
\* "Not Run" record that carries a reason and no error, check_dependencies,
\* build_command and parse_output are never invoked, no process is
\* launched, nothing is formatted, and the status stays NOT_STARTED.
C11_NotRunShortCircuit ==
    \A u \in Units :
        env[u].run_if = "false"
        => /\ env[u].deps = NoOutcome
           /\ env[u].build = NoOutcome
           /\ env[u].proc = NoOutcome
           /\ env[u].parse = NoOutcome
           /\ env[u].formatted = 0
           /\ proc[u] = "none"
           /\ inst[u].status = "not_started"
           /\ future[u] # None
           /\ future[u][1].ok
           /\ future[u][1].value.status = "Not Run"
           /\ future[u][1].value.plugin = plugins[u].name
           /\ "reason" \in DOMAIN future[u][1].value
           /\ "error" \notin DOMAIN future[u][1].value

\* run_scans returned the "Not Run" record of a unit next to a unit that
\* ran to completion
C11_Witness ==
    /\ phase = "returned"
    /\ \E u, v \in Units :
         /\ env[u].run_if = "false"
         /\ \E k \in Positions(u) : scan_results[k].status = "Not Run"
         /\ inst[v].status = "completed"

\* --------------------------------------------------------------------- C12
\* C12: when run_scans has returned and check_dependencies() returned false
\* for every unit, no exception left run_scans or a worker task, the list
\* holds exactly one record per unit, and, the results files being
\* writable, each record has status "failed" and error
\* "Dependencies not met".
C12_AllDependenciesMissing ==
    (phase = "returned" /\ \A u \in Units : env[u].deps = "false")
    => /\ Len(scan_results) = Len(plugins)
       /\ \A u \in Units :
            /\ future[u][1].ok
            /\ Cardinality(Positions(u)) = 1
            /\ dir_writable
               => \A k \in Positions(u) :
                    /\ scan_results[k].status = "failed"
                    /\ "error" \in DOMAIN scan_results[k]
                    /\ scan_results[k].error = "Dependencies not met"
                    /\ scan_results[k].tool_name = plugins[u].name

\* run_scans returned after the dependency check failed for each of
\* several units
C12_Witness ==
    /\ phase = "returned"
    /\ Len(plugins) > 1
    /\ dir_writable
    /\ \A u \in Units : env[u].deps = "false"
    /\ \A k \in 1..Len(scan_results) : scan_results[k].status = "failed"

\* --------------------------------------------------------------------- C13
\* the process of u exited and run() went on to retrieve its output
Retrieved(u) == env[u].proc \in {"exit0", "exit_nonzero"}

\* C13: for a FILE unit run on a fresh instance whose process, in this
\* execution, exited without writing its output file, the raw_output of
\* the instance and of its record is the empty string, whatever earlier
\* runs of the unit left in the output directory.
C13_NoFileMeansEmptyRaw ==
    \A u \in Units :
        (/\ plugins[u].output_method = "file"
         /\ env[u].reruns = 0
         /\ pc[u] = "done"
         /\ Retrieved(u)
         /\ ~ env[u].wrote)
        => /\ inst[u].raw_output = Some("")
           /\ inst[u].results[1].raw_output = Some("")

\* --------------------------------------------------------------------- C14
\* C14: for a unit, STDOUT or FILE, whose process exited with a non-zero
\* code, the output was retrieved and parse_output was invoked; the unit is
\* FAILED only if parse_output raised, and when it raised nothing the unit
\* is COMPLETED and its record holds the parsed findings.
C14_NonZeroExitStillParses ==
    \A u \in Units :
        env[u].proc = "exit_nonzero"
        => /\ inst[u].raw_output # None
           /\ env[u].parse \in {"ok", "raise"}
           /\ (inst[u].status = "failed" => env[u].parse = "raise")
           /\ env[u].parse = "ok"
              => /\ inst[u].status = "completed"
                 /\ inst[u].results[1].status = "completed"
                 /\ inst[u].results[1].findings = ParsedFindings

\* a STDOUT unit and a FILE unit both completed after a non-zero exit
C14_Witness ==
    \E u, v \in Units :
        /\ plugins[u].output_method = "stdout"
        /\ plugins[v].output_method = "file"
        /\ env[u].proc = "exit_nonzero" /\ inst[u].status = "completed"
        /\ env[v].proc = "exit_nonzero" /\ inst[v].status = "completed"

\* --------------------------------------------------------------------- C15
\* C15: after a re-run of a unit against the same output directory (the
\* results file being writable and the dependency check answering),
\* <name>_results.json holds the new record, and every field of the new
\* record comes from this run: the timestamps are those of this run, and
\* null with the duration when this run never entered RUNNING; raw_output
\* is null when this run retrieved no output and empty when its process
\* wrote no file; the error is present only when this run's dependency
\* check failed; the findings are empty unless this run parsed some.
C15_RerunLeavesNothingStale ==
    \A u \in Units :
        (/\ clock > 1
         /\ pc[u] = "done"
         /\ env[u].deps \in {"true", "false"}
         /\ dir_writable)
        => LET rec == inst[u].results[1]
               entered == env[u].deps = "true"
               stamp == IF entered THEN Some(Isoformat(clock)) ELSE None
           IN  /\ results_files[plugins[u].name] = Some(rec)
               /\ rec.timestamp_start = stamp
               /\ rec.timestamp_end = stamp
               /\ rec.duration_seconds = (IF entered THEN Some(0) ELSE None)
               /\ (~ Retrieved(u) => rec.raw_output = None)
               /\ (/\ Retrieved(u)
                   /\ plugins[u].output_method = "file"
                   /\ ~ env[u].wrote) => rec.raw_output = Some("")
               /\ ("error" \in DOMAIN rec <=> ~ entered)
               /\ (env[u].parse # "ok" => rec.findings = EmptyFindings)

\* --------------------------------------------------------------------- C16
\* the caller replaces the instance of u by a newly constructed one
Replaced(u) ==
    /\ pc[u] # "run"
    /\ pc'[u] = "run"
    /\ inst'[u] = NewInstance
    /\ env'[u] = NewEnv

\* C16: once an instance has reached COMPLETED, FAILED or TIMEOUT, no step
\* of a later run() on that same instance changes its status.
C16_StatusForwardOnly ==
    [][\A u \in Units :
          (inst[u].status \in {"completed", "failed", "timeout"}
           /\ ~ Replaced(u))
          => inst'[u].status = inst[u].status]_vars

\* --------------------------------------------------------------------- C17
\* C17: when run_scans has returned, for every submitted unit the file
\* <output_dir>/<name>_results.json exists and holds the record the
\* returned list has for that unit.
C17_EveryRecordPersisted ==
    phase = "returned"
    => \A u \in Units :
         /\ Positions(u) # {}
         /\ \A k \in Positions(u) :
              results_files[plugins[u].name] = Some(scan_results[k])

\* --------------------------------------------------------------------- C18
\* C18: when run() of the wafw00f unit against example.com has returned,
\* its dependency check having passed and its process having written
\* {"firewall": "CloudFront"} to the output file and exited 0, the record
\* has findings {"detected_waf": "CloudFront"} and status "completed".
C18_WafCloudFront ==
    \A u \in Units :
        (/\ plugins[u].name = "wafw00f"
         /\ pc[u] = "done"
         /\ env[u].deps = "true"
         /\ env[u].proc = "exit0"
         /\ env[u].wrote
         /\ raw_files["wafw00f"] = Some("{\"firewall\": \"CloudFront\"}"))
        => /\ inst[u].results[1].findings = {<<"detected_waf", "CloudFront">>}
           /\ inst[u].results[1].status = "completed"
           /\ inst[u].results[1].target = "example.com"
           /\ inst[u].results[1].tool_name = "wafw00f"
           /\ dir_writable
              => /\ future[u] = Some(Returned(inst[u].results[1]))
                 /\ results_files["wafw00f"] = Some(inst[u].results[1])

\* the wafw00f run of the scenario has returned its record
C18_Witness ==
    \E u \in Units :
        /\ plugins[u].name = "wafw00f"
        /\ pc[u] = "done"
        /\ env[u].deps = "true"
        /\ env[u].proc = "exit0"
        /\ env[u].wrote
        /\ raw_files["wafw00f"] = Some("{\"firewall\": \"CloudFront\"}")
        /\ dir_writable
        /\ inst[u].status = "completed"

\* --------------------------------------------------------------------- C19
\* output files the wafw00f adapter cannot take findings from: absent,
\* empty, no JSON, JSON that is no object
WafMalformed == {None, Some(""), Some("not json"), Some("[]")}

\* C19: whatever the output file holds when the wafw00f unit's run() calls
\* parse_output, parse_output raises nothing and returns a mapping, the
\* empty one when the file is absent, empty or malformed.
C19_WafParseNeverRaises ==
    \A u \in Units :
        (/\ plugins[u].name = "wafw00f"
         /\ pc[u] = "done"
         /\ env[u].parse # NoOutcome)
        => /\ env[u].parse = "ok"
           /\ inst[u].status = "completed"
           /\ raw_files["wafw00f"] \in WafMalformed
              => inst[u].results[1].findings = EmptyFindings

\* --------------------------------------------------------------------- C20
\* C20: a discovery pass, the orchestrator's or PluginDiscoverer's, never
\* ends by raising, whatever fault the loading of an adapter raises, and
\* when it returns it hands back every class of every adapter that loads.
C20_DiscoverySkipsUnloadable ==
    /\ discovery.state # "raised"
    /\ discovery.state = "returned"
       => \A k \in 1..Len(plugins_dir) :
            plugins_dir[k].load = "ok"
            => \A j \in 1..Len(plugins_dir[k].classes) :
                 plugins_dir[k].classes[j] \in Discovered

\* --------------------------------------------------------------------- C21
\* C21: within one run_scans call, two different unit instances that are
\* inside run() at the same time never have the same results file path or
\* the same raw output file path.
C21_NoSharedFilePath ==
    phase = "scanning"
    => \A u, v \in Units :
         (u # v /\ InRun(u) /\ InRun(v))
         => /\ ResultsFile(u) # ResultsFile(v)
            /\ RawOutputFile(u) # RawOutputFile(v)

\* --------------------------------------------------------------------- C22
\* C22: can_resume() of a unit that does not override it is false, and
\* when its resume() has been called, whatever the status of the instance
\* (NOT_STARTED, or COMPLETED, FAILED, TIMEOUT after a run) and the
\* results file being writable, resume() raised nothing and returned a
\* record whose error field is "Resume not supported"; the status of the
\* instance is the one it had.
C22_ResumeNotSupported ==
    \A u \in Units :
        /\ ~ CanResume(plugins[u])
        /\ (pc[u] = "resumed" /\ dir_writable)
           => /\ future[u] # None
              /\ future[u][1].ok
              /\ "error" \in DOMAIN future[u][1].value
              /\ future[u][1].value.error = "Resume not supported"
              /\ future[u][1].value.status = inst[u].status
              /\ future[u][1].value.tool_name = plugins[u].name
              /\ results_files[plugins[u].name] = Some(future[u][1].value)

\* resume() returned its record on an instance that had timed out
C22_Witness ==
    \E u \in Units :
        /\ pc[u] = "resumed"
        /\ dir_writable
        /\ inst[u].status = "timeout"
        /\ future[u][1].value.error = "Resume not supported"

\* --------------------------------------------------------------------- C23
\* C23: for a FILE unit whose built command holds the placeholder anywhere,
\* as a whole argument or inside one, the launched command holds no
\* placeholder, and it is the built command with every occurrence
\* replaced by <output_dir>/<name>_raw_output.json, the path run() reads
\* back.
C23_PlaceholderSubstituted ==
    (launched_cmd # None /\ plugins[1].output_method = "file")
    => LET launched == launched_cmd[1]
       IN  /\ Len(launched) = Len(cmd)
           /\ \A k \in 1..Len(cmd) :
                /\ Len(launched[k]) = Len(cmd[k])
                /\ \A j \in 1..Len(cmd[k]) :
                     /\ launched[k][j] # Placeholder
                     /\ launched[k][j] =
                            (IF cmd[k][j] = Placeholder
                             THEN RawOutputFile(1) ELSE cmd[k][j])

\* --------------------------------------------------------------------- C24
\* C24: the record run() formatted on a fresh instance has an error field
\* exactly when the dependency check returned false; a unit that entered
\* RUNNING and ended TIMEOUT or FAILED has none; a record with an error
\* field has null timestamp_start, timestamp_end and duration_seconds, and
\* a record reached through RUNNING has all three non-null.
C24_ErrorIffDependenciesFailed ==
    \A u \in Units :
        (RunCalled(u) /\ inst[u].results # None)
        => LET rec == inst[u].results[1]
           IN  /\ "error" \in DOMAIN rec <=> env[u].deps = "false"
               /\ "error" \in DOMAIN rec
                  => /\ rec.timestamp_start = None
                     /\ rec.timestamp_end = None
                     /\ rec.duration_seconds = None
               /\ env[u].deps = "true"
                  => /\ rec.timestamp_start # None
                     /\ rec.timestamp_end # None
                     /\ rec.duration_seconds # None
                     /\ rec.status \in {"completed", "failed", "timeout"}

\* a unit that timed out and a unit whose dependency check failed have both
\* returned their records
C24_Witness ==
    \E u, v \in Units :
        /\ inst[u].results # None /\ inst[u].results[1].status = "timeout"
        /\ "error" \notin DOMAIN inst[u].results[1]
        /\ inst[v].results # None /\ env[v].deps = "false"
        /\ "error" \in DOMAIN inst[v].results[1]

====
